---- MODULE Spec2Model ----
(***************************************************************************)
(* The claim-and-consistency core of the eco rewards backend: the          *)
(* claimReward and reverseClaim request handlers of the claim controller,  *)
(* the RewardClaim pre-save hook and reverseClaim method, and the QRCode,  *)
(* Reward, Partner and User model methods they call.  Every handler is     *)
(* split at its awaits: one action per storage operation, together with    *)
(* the synchronous code that follows it.                                   *)
(***************************************************************************)
EXTENDS Integers, Sequences, FiniteSets, TLC

VARIABLES users, qrcodes, rewards, partner, claims, leaderboard, now, req,
          nreq, nadm

vars == <<users, qrcodes, rewards, partner, claims, leaderboard, now, req,
          nreq, nadm>>
db == <<users, qrcodes, rewards, partner, claims>>

(* ---------------------------------------------------------------- bounds *)

\* the users who claim rewards, and all the users of the User collection
Users == {"u1", "u2"}
AllUsers == Users \cup {"u3"}
QRs == {"q1", "q2"}
\* a code string that matches no QRCode document
QRCodeStrings == QRs \cup {"qx"}
Rewards == {"r1", "r2"}
Procs == {"p1", "p2"}
SeqProcs == {"p1"}

\* requests started in one behaviour, sequential and concurrent specifications
MaxSeqReq == 4
MaxReq == 2
\* the clock runs from 1 to MaxTime
MaxTime == 2
\* claim ids a reversal request may name per (user, QR code) pair
MaxClaimIdx == 1
\* claimReward requests and admin requests in one behaviour of the
\* availability specification
MaxAvailReq == 2
MaxAdminOps == 3
\* requests in one behaviour of the points specification and of the
\* leaderboard specification
MaxPtsReq == 3
MaxLbReq == 4
\* requests in one behaviour of the concurrent points specification
MaxRaceReq == 2
\* requests in one behaviour of the validity specification
MaxValidReq == 1
\* requests in one behaviour of the eco level specification
MaxLevelReq == 2
\* requests in one behaviour of the activity specification
MaxActReq == 2
\* requests in one behaviour of the scan specification
MaxScanReq == 3
\* requests in one behaviour of the overlapping reversal specification
MaxRevReq == 4

\* the points a user starts with in the eco level specification, around
\* every threshold, and the points a request to updateUserPoints adds there
LevelPoints == {0, 90, 99, 100, 249, 250, 499, 500, 999, 1000}
LevelInputs == {-1, 1, 15}
EcoLevels == {"beginner", "intermediate", "advanced", "expert", "leader"}

\* the points a request to updateUserPoints may carry, the user ids it may
\* name and the activity types a request to createActivity may carry
PointsInputs == {-60, 0, 100}
UserIds == Users \cup {"ux"}
ActivityTypes == {"tree_planting", "daily_login", "qr_scan"}

Ok == "ok"
ActiveStatuses == {"completed", "pending"}

(* ------------------------------------------------------- pure functions *)

levelForStrict(points) ==
    IF points > 1000 THEN "leader"
    ELSE IF points > 500 THEN "expert"
    ELSE IF points > 250 THEN "advanced"
    ELSE IF points > 100 THEN "intermediate"
    ELSE "beginner"

\* UserSchema.methods.updateEcoLevel
levelFor(points) ==
    IF points >= 1000 THEN "leader"
    ELSE IF points >= 500 THEN "expert"
    ELSE IF points >= 250 THEN "advanced"
    ELSE IF points >= 100 THEN "intermediate"
    ELSE "beginner"

\* RewardSchema.virtual("isExpired"); a null expiryDate is 0
isExpired(reward) ==
    IF reward.expiryDate = 0 THEN FALSE ELSE now > reward.expiryDate

\* RewardSchema.virtual("isMaxedOut"); a null totalMaxClaims is 0
isMaxedOut(reward) ==
    IF reward.totalMaxClaims = 0 THEN FALSE
    ELSE reward.currentClaims >= reward.totalMaxClaims

\* RewardSchema.virtual("isAvailable")
isAvailable(reward) ==
    reward.isActive /\ ~isExpired(reward) /\ ~isMaxedOut(reward)

canUserClaimOffByOne(reward, userClaimCount) ==
    IF ~isAvailable(reward) THEN FALSE
    ELSE userClaimCount <= reward.maxClaimsPerUser

\* RewardSchema.methods.canUserClaim
canUserClaim(reward, userClaimCount) ==
    IF ~isAvailable(reward) THEN FALSE
    ELSE userClaimCount < reward.maxClaimsPerUser

\* PartnerSchema.methods.isEligibleForRewards
isEligibleForRewards(p) ==
    p.verificationStatus = "verified" /\ p.isActive

\* QRCodeSchema.methods.isValidForScanning, the check on the QR code itself
QRCheck(qr) ==
    IF ~qr.isActive THEN "QR code is inactive" ELSE Ok

RewardCheckNoMax(reward) ==
    IF ~reward.exists THEN "Associated reward not found"
    ELSE IF ~reward.isActive THEN "Reward is inactive"
    ELSE IF isExpired(reward) THEN "Reward has expired"
    ELSE Ok

RewardCheckExpiryFirst(reward) ==
    IF ~reward.exists THEN "Associated reward not found"
    ELSE IF isExpired(reward) THEN "Reward has expired"
    ELSE IF ~reward.isActive THEN "Reward is inactive"
    ELSE IF isMaxedOut(reward) THEN "Reward has reached maximum claims"
    ELSE Ok

\* QRCodeSchema.methods.isValidForScanning, the checks on the reward it reads
RewardCheck(reward) ==
    IF ~reward.exists THEN "Associated reward not found"
    ELSE IF ~reward.isActive THEN "Reward is inactive"
    ELSE IF isExpired(reward) THEN "Reward has expired"
    ELSE IF isMaxedOut(reward) THEN "Reward has reached maximum claims"
    ELSE Ok

\* QRCodeSchema.methods.isValidForScanning, the checks on the partner it reads
PartnerCheck(p) ==
    IF ~p.exists THEN "Associated partner not found"
    ELSE IF ~isEligibleForRewards(p) THEN "Partner is not eligible"
    ELSE Ok

\* QRCodeSchema.methods.isValidForScanning
isValidForScanning(qr, reward, p) ==
    IF QRCheck(qr) # Ok THEN [valid |-> FALSE, reason |-> QRCheck(qr)]
    ELSE IF RewardCheck(reward) # Ok
         THEN [valid |-> FALSE, reason |-> RewardCheck(reward)]
    ELSE IF PartnerCheck(p) # Ok
         THEN [valid |-> FALSE, reason |-> PartnerCheck(p)]
    ELSE [valid |-> TRUE, reason |-> "QR code is valid"]

MaxUnfloored(a, b) == b

Max(a, b) == IF a >= b THEN a ELSE b

RECURSIVE SumSeq(_)
SumSeq(s) == IF s = <<>> THEN 0 ELSE Head(s) + SumSeq(Tail(s))

RECURSIVE SumOver(_, _)
SumOver(S, f) ==
    IF S = {} THEN 0
    ELSE LET x == CHOOSE y \in S : TRUE IN f[x] + SumOver(S \ {x}, f)

(* ------------------------------------------------- the claim collection *)

Pairs == Users \X QRs

\* the ids of the RewardClaim documents: <<user, QR code, index>>
ClaimIds == UNION {{<<pr[1], pr[2], i>> : i \in DOMAIN claims[pr]} : pr \in Pairs}

ClaimDoc(id) == claims[<<id[1], id[2]>>][id[3]]

\* the non-reversed claims (status completed or pending)
ActiveClaimIds == {id \in ClaimIds : ClaimDoc(id).status # "reversed"}

hasUserClaimedQRNever(userId, qrCodeId) == 0

\* RewardClaimSchema.statics.hasUserClaimedQR: the index of a claim of the
\* pair with status completed or pending, 0 when there is none
hasUserClaimedQR(userId, qrCodeId) ==
    LET s == claims[<<userId, qrCodeId>>]
        hits == {i \in 1..Len(s) : s[i].status \in ActiveStatuses}
    IN IF hits = {} THEN 0 ELSE CHOOSE i \in hits : \A j \in hits : i <= j

\* RewardClaimSchema.statics.getUserClaimCount
getUserClaimCount(userId, rewardId) ==
    Cardinality({id \in ClaimIds :
        /\ id[1] = userId
        /\ ClaimDoc(id).rewardId = rewardId
        /\ ClaimDoc(id).status \in ActiveStatuses})

UniqueIndexAbsent(userId, qrCodeId) == FALSE

\* RewardClaimSchema.index({ userId: 1, qrCodeId: 1 }, { unique: true }):
\* an insert for a pair that already has a document, of any status, fails
UniqueIndexViolated(userId, qrCodeId) ==
    Len(claims[<<userId, qrCodeId>>]) > 0

(* ------------------------------------------------------------- requests *)

NoDoc == [isActive |-> FALSE, successfulClaims |-> 0, scanCount |-> 0,
          rewardId |-> "none",
          reward |-> [exists |-> FALSE]]
NoUser == [points |-> 0, ecoLevel |-> "none"]
NoClaim == <<"none", "none", 0>>
NoResp == [code |-> 0, error |-> "", claimedAt |-> 0, pointsAwarded |-> 0,
           totalPoints |-> 0, ecoLevel |-> "", thrown |-> ""]
\* no Leaderboard document for the user; a null rank is 0
NoEntry == [exists |-> FALSE, totalPoints |-> 0, currentRank |-> 0,
            previousRank |-> 0, rankMovement |-> "new"]
\* isValidForScanning has not returned
NoValidation == [valid |-> FALSE, reason |-> "none"]
NoPre == [users |-> <<>>, successfulClaims |-> <<>>, currentClaims |-> <<>>,
          claims |-> <<>>, leaderboard |-> <<>>]

IdleReq == [pc |-> "idle", op |-> "none", userId |-> "none", qrId |-> "none",
            metaOk |-> TRUE, claimId |-> NoClaim, qrDoc |-> NoDoc,
            userDoc |-> NoUser, pointsAwarded |-> 0, claimedAt |-> 0,
            activityType |-> "none", entries |-> <<>>, written |-> 0,
            validationResult |-> NoValidation, lbError |-> FALSE,
            resp |-> NoResp, pre |-> NoPre]

\* the stored values the claims compare before and after a request
Snapshot == [users |-> users,
             successfulClaims |-> [q \in QRs |-> qrcodes[q].successfulClaims],
             currentClaims |-> [r \in Rewards |-> rewards[r].currentClaims],
             claims |-> claims,
             leaderboard |-> leaderboard]

Resp(code, error) == [NoResp EXCEPT !.code = code, !.error = error]

errorHandlerServerError(err, existing) ==
    [Resp(500, err) EXCEPT !.thrown = err]

\* the error middleware, which answers for an error a handler throws: a
\* violation of the unique index is the duplicate-claim client error, with
\* the info of the existing claim; any other error is a server error
errorHandler(err, existing) ==
    IF err = "E11000 duplicate key"
    THEN [Resp(400, "You have already claimed this reward") EXCEPT
            !.claimedAt = existing.claimedAt,
            !.pointsAwarded = existing.pointsAwarded,
            !.thrown = err]
    ELSE [Resp(500, err) EXCEPT !.thrown = err]

NoExisting == [claimedAt |-> 0, pointsAwarded |-> 0]

\* the handler of p returns with response r
Respond(p, r) == req' = [req EXCEPT ![p].pc = "done", ![p].resp = r]

\* the handler of p moves to its next await
Goto(p, pc) == req' = [req EXCEPT ![p].pc = pc]

\* isValidForScanning returns { valid: false, reason } and claimReward
\* answers 400 with the reason
Invalid(p, reason) ==
    req' = [req EXCEPT ![p].pc = "done", ![p].resp = Resp(400, reason),
                       ![p].validationResult = [valid |-> FALSE, reason |-> reason]]

AllIdle == \A p \in Procs : req[p].pc = "idle"

(* ----------------------------------------------------------------- Init *)

InitReward(points, maxClaimsPerUser, totalMaxClaims, expiryDate) ==
    [exists |-> TRUE, isActive |-> TRUE, points |-> points,
     maxClaimsPerUser |-> maxClaimsPerUser, totalMaxClaims |-> totalMaxClaims,
     currentClaims |-> 0, expiryDate |-> expiryDate]

Init ==
    /\ users = [u \in AllUsers |->
                  [points |-> 0, ecoLevel |-> "beginner", claimedRewards |-> <<>>]]
    /\ \E r2 \in Rewards :
         qrcodes = [q \in QRs |->
                      [exists |-> TRUE, isActive |-> TRUE,
                       rewardId |-> IF q = "q1" THEN "r1" ELSE r2,
                       successfulClaims |-> 0, scanCount |-> 0]]
    /\ rewards = [r \in Rewards |->
                    IF r = "r1" THEN InitReward(60, 1, 0, 0)
                    ELSE InitReward(50, 2, 1, 1)]
    /\ partner = [exists |-> TRUE, verificationStatus |-> "verified",
                  isActive |-> TRUE]
    /\ claims = [pr \in Pairs |-> <<>>]
    /\ leaderboard = [u \in AllUsers |-> NoEntry]
    /\ now = 1
    /\ req = [p \in Procs |-> IdleReq]
    /\ nreq = 0
    /\ nadm = 0

(* ---------------------------------------------------------- claimReward *)

\* claimReward is called: POST /api/v1/claim/reward
StartClaim(p, u, q, metaOk) ==
    /\ req[p].pc = "idle"
    /\ req' = [req EXCEPT ![p] = [IdleReq EXCEPT !.pc = "cFind", !.op = "claim",
                                    !.userId = u, !.qrId = q, !.metaOk = metaOk,
                                    !.pre = Snapshot]]
    /\ nreq' = nreq + 1
    /\ UNCHANGED <<leaderboard, db, now, nadm>>

\* QRCode.findOne(...).populate(...) returns; isValidForScanning checks isActive
ClaimFind(p) ==
    /\ req[p].pc = "cFind"
    /\ LET q == req[p].qrId IN
       IF q \notin QRs \/ ~qrcodes[q].exists
       THEN Respond(p, Resp(404, "QR code not found"))
       ELSE LET doc == [isActive |-> qrcodes[q].isActive,
                        successfulClaims |-> qrcodes[q].successfulClaims,
                        scanCount |-> qrcodes[q].scanCount,
                        rewardId |-> qrcodes[q].rewardId,
                        reward |-> rewards[qrcodes[q].rewardId]]
            IN IF QRCheck(doc) # Ok
               THEN Invalid(p, QRCheck(doc))
               ELSE req' = [req EXCEPT ![p].pc = "cReward", ![p].qrDoc = doc]
    /\ UNCHANGED <<leaderboard, db, now, nreq, nadm>>

\* isValidForScanning: Reward.findById returns
ClaimReward(p) ==
    /\ req[p].pc = "cReward"
    /\ LET c == RewardCheck(rewards[req[p].qrDoc.rewardId]) IN
       IF c # Ok THEN Invalid(p, c) ELSE Goto(p, "cPartner")
    /\ UNCHANGED <<leaderboard, db, now, nreq, nadm>>

\* where a handler goes on after isValidForScanning returned valid:
\* claimReward to its duplicate check, the scan handlers to recordScan
AfterValidation(p) == IF req[p].op = "claim" THEN "cDupCheck" ELSE "sRecord"

\* isValidForScanning: Partner.findById returns
ClaimPartner(p) ==
    /\ req[p].pc = "cPartner"
    /\ LET c == PartnerCheck(partner) IN
       IF c # Ok THEN Invalid(p, c)
       ELSE req' = [req EXCEPT ![p].pc = AfterValidation(p),
                               ![p].validationResult =
                                   [valid |-> TRUE, reason |-> "QR code is valid"]]
    /\ UNCHANGED <<leaderboard, db, now, nreq, nadm>>

\* RewardClaim.hasUserClaimedQR returns
ClaimDupCheck(p) ==
    /\ req[p].pc = "cDupCheck"
    /\ LET u == req[p].userId
           q == req[p].qrId
           i == hasUserClaimedQR(u, q)
       IN IF i # 0
          THEN Respond(p, [Resp(400, "You have already claimed this reward")
                             EXCEPT !.claimedAt = claims[<<u, q>>][i].claimedAt,
                                    !.pointsAwarded = claims[<<u, q>>][i].pointsAwarded])
          ELSE Goto(p, "cCount")
    /\ UNCHANGED <<leaderboard, db, now, nreq, nadm>>

\* RewardClaim.getUserClaimCount returns; canUserClaim on the populated reward;
\* RewardClaim.create validates the new document before its pre-save hook runs
ClaimCount(p) ==
    /\ req[p].pc = "cCount"
    /\ LET n == getUserClaimCount(req[p].userId, req[p].qrDoc.rewardId) IN
       IF ~canUserClaim(req[p].qrDoc.reward, n)
       THEN Respond(p, Resp(400, "You have reached the maximum number of claims"))
       ELSE IF ~req[p].metaOk
       THEN Respond(p, errorHandler("ValidationError", NoExisting))
       ELSE req' = [req EXCEPT ![p].pc = "hookUser",
                               ![p].pointsAwarded = req[p].qrDoc.reward.points,
                               ![p].claimedAt = now]
    /\ UNCHANGED <<leaderboard, db, now, nreq, nadm>>

\* pre-save hook: User.findById returns
HookUser(p) ==
    /\ req[p].pc = "hookUser"
    /\ req' = [req EXCEPT ![p].pc = "hookUserSave",
                          ![p].userDoc = [points |-> users[req[p].userId].points,
                                          ecoLevel |-> users[req[p].userId].ecoLevel]]
    /\ UNCHANGED <<leaderboard, db, now, nreq, nadm>>

claimedRewardsPushNone(claimedRewards, entry) == claimedRewards

\* user.claimedRewards.push({ ... })
claimedRewardsPush(claimedRewards, entry) == Append(claimedRewards, entry)

\* pre-save hook: user.save() writes the paths the hook modified
HookUserSave(p) ==
    /\ req[p].pc = "hookUserSave"
    /\ LET u == req[p].userId
           points == req[p].userDoc.points + req[p].pointsAwarded
           entry == [rewardId |-> req[p].qrDoc.rewardId, qrCodeId |-> req[p].qrId,
                     pointsAwarded |-> req[p].pointsAwarded,
                     claimedAt |-> req[p].claimedAt]
       IN users' = [users EXCEPT
                      ![u].points = points,
                      ![u].ecoLevel = IF levelFor(points) # req[p].userDoc.ecoLevel
                                      THEN levelFor(points) ELSE @,
                      ![u].claimedRewards = claimedRewardsPush(@, entry)]
    /\ Goto(p, "hookQR")
    /\ UNCHANGED <<leaderboard, qrcodes, rewards, partner, claims, now, nreq, nadm>>

\* pre-save hook: QRCode.findByIdAndUpdate $inc successfulClaims
HookQR(p) ==
    /\ req[p].pc = "hookQR"
    /\ qrcodes' = [qrcodes EXCEPT ![req[p].qrId].successfulClaims =
                     IF qrcodes[req[p].qrId].exists THEN @ + 1 ELSE @]
    /\ Goto(p, "hookReward")
    /\ UNCHANGED <<leaderboard, users, rewards, partner, claims, now, nreq, nadm>>

\* pre-save hook: Reward.findByIdAndUpdate $inc currentClaims
HookReward(p) ==
    /\ req[p].pc = "hookReward"
    /\ rewards' = [rewards EXCEPT ![req[p].qrDoc.rewardId].currentClaims =
                     IF rewards[req[p].qrDoc.rewardId].exists THEN @ + 1 ELSE @]
    /\ Goto(p, "cInsert")
    /\ UNCHANGED <<leaderboard, users, qrcodes, partner, claims, now, nreq, nadm>>

\* RewardClaim.create: the insert, after the pre-save hook
ClaimInsert(p) ==
    /\ req[p].pc = "cInsert"
    /\ LET pr == <<req[p].userId, req[p].qrId>> IN
       IF UniqueIndexViolated(pr[1], pr[2])
       THEN /\ Respond(p, errorHandler("E11000 duplicate key", claims[pr][1]))
            /\ UNCHANGED claims
       ELSE /\ claims' = [claims EXCEPT ![pr] = Append(@,
                            [rewardId |-> req[p].qrDoc.rewardId,
                             pointsAwarded |-> req[p].pointsAwarded,
                             status |-> "completed",
                             claimedAt |-> req[p].claimedAt])]
            /\ req' = [req EXCEPT ![p].pc = "cRecord",
                                  ![p].claimId = <<pr[1], pr[2], Len(claims[pr]) + 1>>]
    /\ UNCHANGED <<leaderboard, users, qrcodes, rewards, partner, now, nreq, nadm>>

recordSuccessfulClaimInc(p) == qrcodes[req[p].qrId].successfulClaims + 1

\* QRCodeSchema.methods.recordSuccessfulClaim: the value save() writes, one
\* more than the successfulClaims of the document claimReward loaded
recordSuccessfulClaim(p) == req[p].qrDoc.successfulClaims + 1

\* qrCode.recordSuccessfulClaim(): save() validates and sets successfulClaims
ClaimRecord(p) ==
    /\ req[p].pc = "cRecord"
    /\ LET q == req[p].qrId IN
       IF ~qrcodes[q].exists
       THEN /\ Respond(p, errorHandler("DocumentNotFoundError", NoExisting))
            /\ UNCHANGED qrcodes
       ELSE IF recordSuccessfulClaim(p) < 0
       THEN /\ Respond(p, errorHandler("ValidationError", NoExisting))
            /\ UNCHANGED qrcodes
       ELSE /\ qrcodes' = [qrcodes EXCEPT
                             ![q].successfulClaims = recordSuccessfulClaim(p)]
            /\ Goto(p, "cUser")
    /\ UNCHANGED <<leaderboard, users, rewards, partner, claims, now, nreq, nadm>>

\* User.findById returns; the 201 response
ClaimUser(p) ==
    /\ req[p].pc = "cUser"
    /\ Respond(p, [Resp(201, "") EXCEPT
                     !.pointsAwarded = req[p].pointsAwarded,
                     !.claimedAt = req[p].claimedAt,
                     !.totalPoints = users[req[p].userId].points,
                     !.ecoLevel = users[req[p].userId].ecoLevel])
    /\ UNCHANGED <<leaderboard, db, now, nreq, nadm>>

(* --------------------------------------------------------- reverseClaim *)

\* reverseClaim is called: PUT /api/v1/claim/:id/reverse
StartReverse(p, id) ==
    /\ req[p].pc = "idle"
    /\ req' = [req EXCEPT ![p] = [IdleReq EXCEPT !.pc = "rFind", !.op = "reverse",
                                    !.claimId = id, !.pre = Snapshot]]
    /\ nreq' = nreq + 1
    /\ UNCHANGED <<leaderboard, db, now, nadm>>

alreadyReversedNever(id) == FALSE

\* the controller's check: claim.status === "reversed"
alreadyReversed(id) == ClaimDoc(id).status = "reversed"

\* RewardClaim.findById returns; the controller's checks
ReverseFind(p) ==
    /\ req[p].pc = "rFind"
    /\ LET id == req[p].claimId IN
       IF id \notin ClaimIds
       THEN Respond(p, Resp(404, "Claim not found"))
       ELSE IF alreadyReversed(id)
       THEN Respond(p, Resp(400, "Claim is already reversed"))
       ELSE req' = [req EXCEPT ![p].pc = "rUser",
                               ![p].userId = id[1], ![p].qrId = id[2],
                               ![p].pointsAwarded = ClaimDoc(id).pointsAwarded,
                               ![p].qrDoc = [NoDoc EXCEPT
                                               !.rewardId = ClaimDoc(id).rewardId]]
    /\ UNCHANGED <<leaderboard, db, now, nreq, nadm>>

\* RewardClaimSchema.methods.reverseClaim: User.findById returns
ReverseUser(p) ==
    /\ req[p].pc = "rUser"
    /\ req' = [req EXCEPT ![p].pc = "rUserSave",
                          ![p].userDoc = [points |-> users[req[p].userId].points,
                                          ecoLevel |-> users[req[p].userId].ecoLevel]]
    /\ UNCHANGED <<leaderboard, db, now, nreq, nadm>>

\* reverseClaim: user.save() writes the paths the method modified
ReverseUserSave(p) ==
    /\ req[p].pc = "rUserSave"
    /\ LET u == req[p].userId
           points == Max(0, req[p].userDoc.points - req[p].pointsAwarded)
       IN users' = [users EXCEPT
                      ![u].points = IF points # req[p].userDoc.points
                                    THEN points ELSE @,
                      ![u].ecoLevel = IF levelFor(points) # req[p].userDoc.ecoLevel
                                      THEN levelFor(points) ELSE @]
    /\ Goto(p, "rQR")
    /\ UNCHANGED <<leaderboard, qrcodes, rewards, partner, claims, now, nreq, nadm>>

\* reverseClaim: QRCode.findByIdAndUpdate $inc successfulClaims by -1
ReverseQR(p) ==
    /\ req[p].pc = "rQR"
    /\ qrcodes' = [qrcodes EXCEPT ![req[p].qrId].successfulClaims =
                     IF qrcodes[req[p].qrId].exists THEN @ - 1 ELSE @]
    /\ Goto(p, "rReward")
    /\ UNCHANGED <<leaderboard, users, rewards, partner, claims, now, nreq, nadm>>

\* reverseClaim: Reward.findByIdAndUpdate $inc currentClaims by -1
ReverseReward(p) ==
    /\ req[p].pc = "rReward"
    /\ rewards' = [rewards EXCEPT ![req[p].qrDoc.rewardId].currentClaims =
                     IF rewards[req[p].qrDoc.rewardId].exists THEN @ - 1 ELSE @]
    /\ Goto(p, "rSave")
    /\ UNCHANGED <<leaderboard, users, qrcodes, partner, claims, now, nreq, nadm>>

reversedByDeleting(id) ==
    [claims EXCEPT ![<<id[1], id[2]>>] =
       [i \in 1..(Len(@) - 1) |-> IF i < id[3] THEN @[i] ELSE @[i + 1]]]

\* reverseClaim: this.status = "reversed", stored by this.save(); the record
\* stays in the collection
reversed(id) ==
    [claims EXCEPT ![<<id[1], id[2]>>][id[3]].status = "reversed"]

\* reverseClaim: this.save() stores status reversed; the 200 response
ReverseSave(p) ==
    /\ req[p].pc = "rSave"
    /\ claims' = reversed(req[p].claimId)
    /\ Respond(p, [Resp(200, "") EXCEPT !.pointsAwarded = req[p].pointsAwarded])
    /\ UNCHANGED <<leaderboard, users, qrcodes, rewards, partner, now, nreq, nadm>>

\* the response has been sent: the handler's locals are gone
Finish(p) ==
    /\ req[p].pc = "done"
    /\ req' = [req EXCEPT ![p] = IdleReq]
    /\ UNCHANGED <<leaderboard, db, now, nreq, nadm>>

\* time passes
Tick ==
    /\ now < MaxTime
    /\ now' = now + 1
    /\ UNCHANGED <<leaderboard, db, req, nreq, nadm>>

(* ------------------------------------------------------- leaderboard *)

\* LeaderboardSchema.statics.syncUserPoints: findOneAndUpdate with upsert
syncUserPoints(userId, points) ==
    [leaderboard EXCEPT ![userId].exists = TRUE, ![userId].totalPoints = points]

\* find({}).sort({ totalPoints: -1 }): the orders the entries can come in;
\* entries with equal totalPoints come in either order
SortedEntries ==
    LET E == {u \in AllUsers : leaderboard[u].exists}
        n == Cardinality(E)
    IN {s \in [1..n -> E] :
          /\ \A i, j \in 1..n : i # j => s[i] # s[j]
          /\ \A i, j \in 1..n :
               i < j => leaderboard[s[i]].totalPoints >= leaderboard[s[j]].totalPoints}

rankMovementInverted(currentRank, newRank) ==
    IF currentRank = 0 THEN "new"
    ELSE IF newRank < currentRank THEN "down"
    ELSE IF newRank > currentRank THEN "up"
    ELSE "none"

\* updateAllRankings: the rankMovement of an entry read with currentRank
\* (0 is null) that gets rank newRank
rankMovement(currentRank, newRank) ==
    IF currentRank = 0 THEN "new"
    ELSE IF newRank < currentRank THEN "up"
    ELSE IF newRank > currentRank THEN "down"
    ELSE "none"

newRankOffByOne(index) == index

\* updateAllRankings: currentRank: index + 1, for the 0-based index of the
\* entry among the sorted entries
newRank(index) == index + 1

\* the response a handler sends after its call of updateAllRankings
AfterRankings(p) ==
    IF req[p].op = "points"
    THEN [Resp(200, "") EXCEPT !.totalPoints = req[p].userDoc.points,
                                !.ecoLevel = req[p].userDoc.ecoLevel]
    ELSE IF req[p].op \in {"activity", "ascan"}
    THEN [Resp(201, "") EXCEPT !.pointsAwarded = req[p].pointsAwarded,
                                !.totalPoints = req[p].userDoc.points,
                                !.ecoLevel = req[p].userDoc.ecoLevel]
    ELSE Resp(200, "")

\* updateAllRankings: find({}).sort({ totalPoints: -1 }) returns; with no
\* entries there is no bulkWrite
RankFind(p) ==
    /\ req[p].pc = "rankFind"
    /\ \E s \in SortedEntries :
         IF Len(s) = 0
         THEN Respond(p, AfterRankings(p))
         ELSE req' = [req EXCEPT
                        ![p].pc = "rankWrite",
                        ![p].entries = [i \in 1..Len(s) |->
                                          [userId |-> s[i],
                                           currentRank |-> leaderboard[s[i]].currentRank]],
                        ![p].written = 0]
    /\ UNCHANGED <<db, leaderboard, now, nreq, nadm>>

\* updateAllRankings: bulkWrite applies its next updateOne; after the last
\* one the handler responds
RankWrite(p) ==
    /\ req[p].pc = "rankWrite"
    /\ LET i == req[p].written + 1
           e == req[p].entries[i]
       IN /\ leaderboard' = [leaderboard EXCEPT
                               ![e.userId].previousRank = e.currentRank,
                               ![e.userId].currentRank = newRank(i - 1),
                               ![e.userId].rankMovement =
                                   rankMovement(e.currentRank, newRank(i - 1))]
          /\ IF i = Len(req[p].entries)
             THEN req' = [req EXCEPT ![p].pc = "done", ![p].written = i,
                                     ![p].resp = AfterRankings(p)]
             ELSE req' = [req EXCEPT ![p].written = i]
    /\ UNCHANGED <<db, now, nreq, nadm>>

\* recalculateRankings is called: PUT /api/v1/leaderboard/recalculate
StartRecalculate(p) ==
    /\ req[p].pc = "idle"
    /\ req' = [req EXCEPT ![p] = [IdleReq EXCEPT !.pc = "rankFind", !.op = "recalculate",
                                    !.pre = Snapshot]]
    /\ nreq' = nreq + 1
    /\ UNCHANGED <<db, leaderboard, now, nadm>>

(* --------------------------------------------------- updateUserPoints *)

\* updateUserPoints is called: PUT /api/v1/leaderboard/user/:userId/points
StartUpdateUserPoints(p, u, points) ==
    /\ req[p].pc = "idle"
    /\ req' = [req EXCEPT ![p] = [IdleReq EXCEPT !.pc = "uInc", !.op = "points",
                                    !.userId = u, !.pointsAwarded = points,
                                    !.pre = Snapshot]]
    /\ nreq' = nreq + 1
    /\ UNCHANGED <<db, leaderboard, now, nadm>>

\* the check of the body; User.findByIdAndUpdate $inc points returns the
\* updated document
UpdateInc(p) ==
    /\ req[p].pc = "uInc"
    /\ LET u == req[p].userId
           points == req[p].pointsAwarded
       IN IF points = 0
          THEN /\ Respond(p, Resp(400, "Points must be a valid number"))
               /\ UNCHANGED users
          ELSE IF u \notin AllUsers
          THEN /\ Respond(p, Resp(404, "User not found"))
               /\ UNCHANGED users
          ELSE /\ users' = [users EXCEPT ![u].points = @ + points]
               /\ req' = [req EXCEPT
                            ![p].pc = "uSave",
                            ![p].userDoc = [points |-> users[u].points + points,
                                            ecoLevel |-> users[u].ecoLevel]]
    /\ UNCHANGED <<qrcodes, rewards, partner, claims, leaderboard, now, nreq, nadm>>

\* user.updateEcoLevel(); user.save() writes ecoLevel when it changed
UpdateSave(p) ==
    /\ req[p].pc = "uSave"
    /\ LET u == req[p].userId
           level == levelFor(req[p].userDoc.points)
       IN /\ users' = [users EXCEPT
                         ![u].ecoLevel = IF level # req[p].userDoc.ecoLevel
                                         THEN level ELSE @]
          /\ req' = [req EXCEPT ![p].pc = "uSync", ![p].userDoc.ecoLevel = level]
    /\ UNCHANGED <<qrcodes, rewards, partner, claims, leaderboard, now, nreq, nadm>>

\* Leaderboard.syncUserPoints(userId, user.points)
UpdateSync(p) ==
    /\ req[p].pc = "uSync"
    /\ leaderboard' = syncUserPoints(req[p].userId, req[p].userDoc.points)
    /\ Goto(p, "rankFind")
    /\ UNCHANGED <<db, now, nreq, nadm>>

(* ------------------------------------------------------ createActivity *)

\* Activity.getPointsMapping()[activityType] || 0
getPointsMapping(activityType) ==
    IF activityType = "tree_planting" THEN 100
    ELSE IF activityType = "daily_login" THEN 10
    ELSE 0

\* createActivity is called: POST /api/v1/activities
StartCreateActivity(p, u, activityType) ==
    /\ req[p].pc = "idle"
    /\ req' = [req EXCEPT ![p] = [IdleReq EXCEPT !.pc = "aCreate", !.op = "activity",
                                    !.userId = u, !.activityType = activityType,
                                    !.pre = Snapshot]]
    /\ nreq' = nreq + 1
    /\ UNCHANGED <<db, leaderboard, now, nadm>>

\* the checks of the body; Activity.create returns
ActivityCreate(p) ==
    /\ req[p].pc = "aCreate"
    /\ IF req[p].activityType \in {"qr_scan", "reward_claim"}
       THEN Respond(p, Resp(400, "Use QR scan endpoint for QR-related activities"))
       ELSE req' = [req EXCEPT ![p].pc = "aUser",
                               ![p].pointsAwarded = getPointsMapping(req[p].activityType)]
    /\ UNCHANGED <<db, leaderboard, now, nreq, nadm>>

\* User.findById returns
ActivityUser(p) ==
    /\ req[p].pc = "aUser"
    /\ req' = [req EXCEPT ![p].pc = "aUserSave",
                          ![p].userDoc = [points |-> users[req[p].userId].points,
                                          ecoLevel |-> users[req[p].userId].ecoLevel]]
    /\ UNCHANGED <<db, leaderboard, now, nreq, nadm>>

\* user.points += pointsEarned; user.updateEcoLevel(); user.save() writes
\* the paths that changed
ActivityUserSave(p) ==
    /\ req[p].pc = "aUserSave"
    /\ LET u == req[p].userId
           points == req[p].userDoc.points + req[p].pointsAwarded
           level == levelFor(points)
       IN /\ users' = [users EXCEPT
                         ![u].points = IF points # req[p].userDoc.points
                                       THEN points ELSE @,
                         ![u].ecoLevel = IF level # req[p].userDoc.ecoLevel
                                         THEN level ELSE @]
          /\ req' = [req EXCEPT ![p].pc = "aSync",
                                ![p].userDoc = [points |-> points, ecoLevel |-> level]]
    /\ UNCHANGED <<qrcodes, rewards, partner, claims, leaderboard, now, nreq, nadm>>

\* Leaderboard.syncUserPoints(req.user.id, user.points)
ActivitySync(p) ==
    /\ req[p].pc = "aSync"
    /\ leaderboard' = syncUserPoints(req[p].userId, req[p].userDoc.points)
    /\ Goto(p, "rankFind")
    /\ UNCHANGED <<db, now, nreq, nadm>>

(* ---------------------------------------------------------- scanQRCode *)

\* scanQRCode of the activity controller is called: POST
\* /api/v1/activities/qr-scan
StartActivityScan(p, u, q) ==
    /\ req[p].pc = "idle"
    /\ req' = [req EXCEPT ![p] = [IdleReq EXCEPT !.pc = "cFind", !.op = "ascan",
                                    !.userId = u, !.qrId = q,
                                    !.pre = Snapshot]]
    /\ nreq' = nreq + 1
    /\ UNCHANGED <<db, leaderboard, now, nadm>>

\* scanQRCode of the QR controller is called: GET /api/v1/qr/scan/:qrId
StartQRScan(p, u, q) ==
    /\ req[p].pc = "idle"
    /\ req' = [req EXCEPT ![p] = [IdleReq EXCEPT !.pc = "cFind", !.op = "qscan",
                                    !.userId = u, !.qrId = q,
                                    !.pre = Snapshot]]
    /\ nreq' = nreq + 1
    /\ UNCHANGED <<db, leaderboard, now, nadm>>

\* the points scanQRCode of the activity controller adds to the user
scanPointsNone(p) == 0

\* pointsEarned: qrCodeDoc.rewardId.points; user.points +=
\* qrCodeDoc.rewardId.points
scanPoints(p) == req[p].qrDoc.reward.points

\* recordScan: this.scanCount += 1; this.save() returns. The QR controller
\* then answers 200; the activity controller goes on to Activity.create
\* and User.findById
ScanRecord(p) ==
    /\ req[p].pc = "sRecord"
    /\ qrcodes' = [qrcodes EXCEPT ![req[p].qrId].scanCount =
                     IF qrcodes[req[p].qrId].exists
                     THEN req[p].qrDoc.scanCount + 1 ELSE @]
    /\ IF req[p].op = "qscan"
       THEN Respond(p, Resp(200, ""))
       ELSE req' = [req EXCEPT ![p].pc = "aUser",
                               ![p].pointsAwarded = scanPoints(p)]
    /\ UNCHANGED <<users, rewards, partner, claims, leaderboard, now, nreq, nadm>>

(* ------------------------------------------------- leaderboard failure *)

AfterLeaderboardErrorRethrown(p) ==
    [errorHandler("Leaderboard update error", NoExisting) EXCEPT !.thrown = ""]

\* the response of a handler whose call of syncUserPoints or
\* updateAllRankings threw: the activity handlers catch the error, log it
\* and answer as after a successful update; updateUserPoints and
\* recalculateRankings answer 500
AfterLeaderboardError(p) ==
    IF req[p].op \in {"activity", "ascan"}
    THEN AfterRankings(p)
    ELSE IF req[p].op = "points"
    THEN Resp(500, "Error updating user points")
    ELSE Resp(500, "Error recalculating rankings")

\* syncUserPoints, the find of updateAllRankings or its bulkWrite throws:
\* what was written before stays
LeaderboardFails(p) ==
    /\ req[p].pc \in {"aSync", "uSync", "rankFind", "rankWrite"}
    /\ req' = [req EXCEPT ![p].pc = "done", ![p].lbError = TRUE,
                          ![p].resp = AfterLeaderboardError(p)]
    /\ UNCHANGED <<db, leaderboard, now, nreq, nadm>>

(* ------------------------------------------------------ admin requests *)

\* toggleRewardStatus: PUT /api/v1/rewards/:id/toggle-status
ToggleRewardStatus(r) ==
    /\ rewards[r].exists
    /\ rewards' = [rewards EXCEPT ![r].isActive = ~@]
    /\ nadm < MaxAdminOps
    /\ nadm' = nadm + 1
    /\ UNCHANGED <<leaderboard, users, qrcodes, partner, claims, now, req, nreq>>

\* deleteReward: refused while a claim or a QR code references the reward
DeleteReward(r) ==
    /\ rewards[r].exists
    /\ \A id \in ClaimIds : ClaimDoc(id).rewardId # r
    /\ \A q \in QRs : ~(qrcodes[q].exists /\ qrcodes[q].rewardId = r)
    /\ rewards' = [rewards EXCEPT ![r].exists = FALSE]
    /\ nadm < MaxAdminOps
    /\ nadm' = nadm + 1
    /\ UNCHANGED <<leaderboard, users, qrcodes, partner, claims, now, req, nreq>>

\* toggleQRCodeStatus: PUT /api/v1/qr/:qrId/toggle-status
ToggleQRCodeStatus(q) ==
    /\ qrcodes[q].exists
    /\ qrcodes' = [qrcodes EXCEPT ![q].isActive = ~@]
    /\ nadm < MaxAdminOps
    /\ nadm' = nadm + 1
    /\ UNCHANGED <<leaderboard, users, rewards, partner, claims, now, req, nreq>>

\* deleteQRCode: refused while a claim references the QR code
DeleteQRCode(q) ==
    /\ qrcodes[q].exists
    /\ \A id \in ClaimIds : id[2] # q
    /\ qrcodes' = [qrcodes EXCEPT ![q].exists = FALSE]
    /\ nadm < MaxAdminOps
    /\ nadm' = nadm + 1
    /\ UNCHANGED <<leaderboard, users, rewards, partner, claims, now, req, nreq>>

\* togglePartnerStatus: PUT /api/v1/partners/:id/toggle-status
TogglePartnerStatus ==
    /\ partner.exists
    /\ partner' = [partner EXCEPT !.isActive = ~@]
    /\ nadm < MaxAdminOps
    /\ nadm' = nadm + 1
    /\ UNCHANGED <<leaderboard, users, qrcodes, rewards, claims, now, req, nreq>>

\* verifyPartner: PUT /api/v1/partners/:id/verify
VerifyPartner(verificationStatus) ==
    /\ partner.exists
    /\ verificationStatus \in {"verified", "rejected"}
    /\ partner.verificationStatus # verificationStatus
    /\ partner' = [partner EXCEPT !.verificationStatus = verificationStatus]
    /\ nadm < MaxAdminOps
    /\ nadm' = nadm + 1
    /\ UNCHANGED <<leaderboard, users, qrcodes, rewards, claims, now, req, nreq>>

\* deletePartner: refused while the partner has an active reward
DeletePartner ==
    /\ partner.exists
    /\ \A r \in Rewards : ~(rewards[r].exists /\ rewards[r].isActive)
    /\ partner' = [partner EXCEPT !.exists = FALSE]
    /\ nadm < MaxAdminOps
    /\ nadm' = nadm + 1
    /\ UNCHANGED <<leaderboard, users, qrcodes, rewards, claims, now, req, nreq>>

(* ------------------------------------------------------- specifications *)

ClaimStep(p) ==
    \/ ClaimFind(p) \/ ClaimReward(p) \/ ClaimPartner(p) \/ ClaimDupCheck(p)
    \/ ClaimCount(p) \/ HookUser(p) \/ HookUserSave(p) \/ HookQR(p)
    \/ HookReward(p) \/ ClaimInsert(p) \/ ClaimRecord(p) \/ ClaimUser(p)

ReverseStep(p) ==
    \/ ReverseFind(p) \/ ReverseUser(p) \/ ReverseUserSave(p) \/ ReverseQR(p)
    \/ ReverseReward(p) \/ ReverseSave(p)

PointsStep(p) ==
    \/ UpdateInc(p) \/ UpdateSave(p) \/ UpdateSync(p)
    \/ ActivityCreate(p) \/ ActivityUser(p) \/ ActivityUserSave(p)
    \/ ActivitySync(p) \/ RankFind(p) \/ RankWrite(p)

ScanStep(p) == ScanRecord(p) \/ LeaderboardFails(p)

\* requests of any users, interleaved at their awaits
Next ==
    \/ \E p \in Procs, u \in Users, q \in QRs :
         nreq < MaxReq /\ StartClaim(p, u, q, TRUE)
    \/ \E p \in Procs, u \in Users, q \in QRs, i \in 1..MaxClaimIdx :
         nreq < MaxReq /\ StartReverse(p, <<u, q, i>>)
    \/ \E p \in Procs : ClaimStep(p) \/ ReverseStep(p) \/ Finish(p)

Spec == Init /\ [][Next]_vars

\* claimReward and reverseClaim requests run to completion one at a time
SeqNext ==
    \/ \E p \in SeqProcs, u \in Users, q \in QRCodeStrings, m \in BOOLEAN :
         AllIdle /\ nreq < MaxSeqReq /\ StartClaim(p, u, q, m)
    \/ \E p \in SeqProcs, u \in Users, q \in QRs, i \in 1..MaxClaimIdx :
         AllIdle /\ nreq < MaxSeqReq /\ StartReverse(p, <<u, q, i>>)
    \/ \E p \in SeqProcs : ClaimStep(p) \/ ReverseStep(p) \/ Finish(p)
    \/ Tick

SeqSpec == Init /\ [][SeqNext]_vars

\* claimReward requests one at a time, with the admin requests that change
\* what the availability check reads arriving at any of their awaits
AvailNext ==
    \/ \E p \in SeqProcs, u \in Users, q \in QRs :
         AllIdle /\ nreq < MaxAvailReq /\ StartClaim(p, u, q, TRUE)
    \/ \E p \in SeqProcs : ClaimStep(p) \/ Finish(p)
    \/ Tick
    \/ \E r \in Rewards :
         ToggleRewardStatus(r) \/ DeleteReward(r)
    \/ \E q \in QRs :
         ToggleQRCodeStatus(q) \/ DeleteQRCode(q)
    \/ \E v \in {"verified", "rejected"} :
         VerifyPartner(v)
    \/ TogglePartnerStatus
    \/ DeletePartner

\* claimReward, reverseClaim, updateUserPoints, createActivity and
\* recalculateRankings requests, run to completion one at a time
PtsNext ==
    \/ \E p \in SeqProcs, u \in Users, q \in QRs :
         AllIdle /\ nreq < MaxPtsReq /\ StartClaim(p, u, q, TRUE)
    \/ \E p \in SeqProcs, u \in Users, q \in QRs, i \in 1..MaxClaimIdx :
         AllIdle /\ nreq < MaxPtsReq /\ StartReverse(p, <<u, q, i>>)
    \/ \E p \in SeqProcs, u \in UserIds, points \in PointsInputs :
         AllIdle /\ nreq < MaxPtsReq /\ StartUpdateUserPoints(p, u, points)
    \/ \E p \in SeqProcs, u \in Users, t \in ActivityTypes :
         AllIdle /\ nreq < MaxPtsReq /\ StartCreateActivity(p, u, t)
    \/ \E p \in SeqProcs :
         AllIdle /\ nreq < MaxPtsReq /\ StartRecalculate(p)
    \/ \E p \in SeqProcs :
         ClaimStep(p) \/ ReverseStep(p) \/ PointsStep(p) \/ Finish(p)

PtsSpec == Init /\ [][PtsNext]_vars

\* a handler that has been called runs on: the event loop resumes it after
\* each await; nothing makes a client send a request
PtsFairSpec ==
    /\ Init
    /\ [][PtsNext]_vars
    /\ \A p \in SeqProcs :
         WF_vars(ClaimStep(p) \/ ReverseStep(p) \/ PointsStep(p) \/ Finish(p))

\* the requests of PtsSpec, interleaved at their awaits
RaceNext ==
    \/ \E p \in Procs, u \in Users, q \in QRs :
         nreq < MaxRaceReq /\ StartClaim(p, u, q, TRUE)
    \/ \E p \in Procs, u \in Users, q \in QRs, i \in 1..MaxClaimIdx :
         nreq < MaxRaceReq /\ StartReverse(p, <<u, q, i>>)
    \/ \E p \in Procs, u \in UserIds, points \in PointsInputs :
         nreq < MaxRaceReq /\ StartUpdateUserPoints(p, u, points)
    \/ \E p \in Procs, u \in Users, t \in ActivityTypes :
         nreq < MaxRaceReq /\ StartCreateActivity(p, u, t)
    \/ \E p \in Procs :
         nreq < MaxRaceReq /\ StartRecalculate(p)
    \/ \E p \in Procs :
         ClaimStep(p) \/ ReverseStep(p) \/ PointsStep(p) \/ Finish(p)

RaceSpec == Init /\ [][RaceNext]_vars

\* updateUserPoints and recalculateRankings requests for any user, run to
\* completion one at a time: every updateAllRankings runs alone
LbNext ==
    \/ \E p \in SeqProcs, u \in AllUsers, points \in PointsInputs :
         AllIdle /\ nreq < MaxLbReq /\ StartUpdateUserPoints(p, u, points)
    \/ \E p \in SeqProcs :
         AllIdle /\ nreq < MaxLbReq /\ StartRecalculate(p)
    \/ \E p \in SeqProcs :
         \/ UpdateInc(p) \/ UpdateSave(p) \/ UpdateSync(p)
         \/ RankFind(p) \/ RankWrite(p) \/ Finish(p)

LbSpec == Init /\ [][LbNext]_vars

\* the first QR code, its reward and the partner in every combination of
\* what isValidForScanning looks at
ValidInit ==
    /\ users = [u \in AllUsers |->
                  [points |-> 0, ecoLevel |-> "beginner", claimedRewards |-> <<>>]]
    /\ \E a \in BOOLEAN :
         qrcodes = [q \in QRs |->
                      [exists |-> TRUE, isActive |-> IF q = "q1" THEN a ELSE TRUE,
                       rewardId |-> IF q = "q1" THEN "r1" ELSE "r2",
                       successfulClaims |-> 0, scanCount |-> 0]]
    /\ \E e \in BOOLEAN, a \in BOOLEAN, x \in 0..1, t \in 0..1, c \in 0..1 :
         rewards = [r \in Rewards |->
                      IF r = "r1"
                      THEN [InitReward(60, 1, t, x) EXCEPT
                              !.exists = e, !.isActive = a, !.currentClaims = c]
                      ELSE InitReward(50, 2, 1, 1)]
    /\ \E e \in BOOLEAN, a \in BOOLEAN,
          v \in {"pending", "verified", "rejected"} :
         partner = [exists |-> e, verificationStatus |-> v, isActive |-> a]
    /\ claims = [pr \in Pairs |-> <<>>]
    /\ leaderboard = [u \in AllUsers |-> NoEntry]
    /\ now = MaxTime
    /\ req = [p \in Procs |-> IdleReq]
    /\ nreq = 0
    /\ nadm = 0

\* claimReward requests, one at a time, with nothing else going on
ValidNext ==
    \/ \E p \in SeqProcs, u \in Users, q \in QRs :
         AllIdle /\ nreq < MaxValidReq /\ StartClaim(p, u, q, TRUE)
    \/ \E p \in SeqProcs : ClaimStep(p) \/ Finish(p)

ValidSpec == ValidInit /\ [][ValidNext]_vars

\* the first user with any of LevelPoints and any stored ecoLevel
LevelInit ==
    /\ \E points \in LevelPoints, level \in EcoLevels :
         users = [u \in AllUsers |->
                    [points |-> IF u = "u1" THEN points ELSE 0,
                     ecoLevel |-> IF u = "u1" THEN level ELSE "beginner",
                     claimedRewards |-> <<>>]]
    /\ qrcodes = [q \in QRs |->
                    [exists |-> TRUE, isActive |-> TRUE,
                     rewardId |-> IF q = "q1" THEN "r1" ELSE "r2",
                     successfulClaims |-> 0, scanCount |-> 0]]
    /\ rewards = [r \in Rewards |->
                    IF r = "r1" THEN InitReward(60, 1, 0, 0)
                    ELSE InitReward(50, 2, 1, 1)]
    /\ partner = [exists |-> TRUE, verificationStatus |-> "verified",
                  isActive |-> TRUE]
    /\ claims = [pr \in Pairs |-> <<>>]
    /\ leaderboard = [u \in AllUsers |-> NoEntry]
    /\ now = 1
    /\ req = [p \in Procs |-> IdleReq]
    /\ nreq = 0
    /\ nadm = 0

\* updateUserPoints requests on the first user, one at a time: each applies
\* updateEcoLevel to the user's new points
LevelNext ==
    \/ \E p \in SeqProcs, points \in LevelInputs :
         AllIdle /\ nreq < MaxLevelReq /\ StartUpdateUserPoints(p, "u1", points)
    \/ \E p \in SeqProcs :
         \/ UpdateInc(p) \/ UpdateSave(p) \/ UpdateSync(p)
         \/ RankFind(p) \/ RankWrite(p) \/ Finish(p)

LevelSpec == LevelInit /\ [][LevelNext]_vars

\* activities, scans of both controllers, claims and updateUserPoints, one
\* request at a time, where any call of the leaderboard can fail
ActNext ==
    \/ \E p \in SeqProcs, u \in Users, t \in ActivityTypes :
         AllIdle /\ nreq < MaxActReq /\ StartCreateActivity(p, u, t)
    \/ \E p \in SeqProcs, u \in Users, q \in QRCodeStrings :
         AllIdle /\ nreq < MaxActReq /\ StartActivityScan(p, u, q)
    \/ \E p \in SeqProcs, u \in Users, q \in QRCodeStrings :
         AllIdle /\ nreq < MaxActReq /\ StartQRScan(p, u, q)
    \/ \E p \in SeqProcs, u \in Users, q \in QRs :
         AllIdle /\ nreq < MaxActReq /\ StartClaim(p, u, q, TRUE)
    \/ \E p \in SeqProcs, u \in Users :
         AllIdle /\ nreq < MaxActReq /\ StartUpdateUserPoints(p, u, 100)
    \/ \E p \in SeqProcs :
         ClaimStep(p) \/ PointsStep(p) \/ ScanStep(p) \/ Finish(p)

ActSpec == Init /\ [][ActNext]_vars

\* claims one at a time, then reversals that overlap each other
RevNext ==
    \/ \E p \in SeqProcs, u \in Users, q \in QRs :
         AllIdle /\ nreq < MaxRevReq /\ StartClaim(p, u, q, TRUE)
    \/ \E p \in Procs, u \in Users, q \in QRs, i \in 1..MaxClaimIdx :
         /\ nreq < MaxRevReq
         /\ \A o \in Procs : req[o].op # "claim"
         /\ StartReverse(p, <<u, q, i>>)
    \/ \E p \in Procs : ClaimStep(p) \/ ReverseStep(p) \/ Finish(p)

RevSpec == Init /\ [][RevNext]_vars

\* scans of both controllers and claims, one request at a time: the only
\* requests here that can credit points are those on account of a reward
ScanNext ==
    \/ \E p \in SeqProcs, u \in Users, q \in QRCodeStrings :
         AllIdle /\ nreq < MaxScanReq /\ StartActivityScan(p, u, q)
    \/ \E p \in SeqProcs, u \in Users, q \in QRCodeStrings :
         AllIdle /\ nreq < MaxScanReq /\ StartQRScan(p, u, q)
    \/ \E p \in SeqProcs, u \in Users, q \in QRs :
         AllIdle /\ nreq < MaxScanReq /\ StartClaim(p, u, q, TRUE)
    \/ \E p \in SeqProcs :
         \/ ClaimStep(p) \/ ScanStep(p)
         \/ ActivityUser(p) \/ ActivityUserSave(p) \/ ActivitySync(p)
         \/ RankFind(p) \/ RankWrite(p) \/ Finish(p)

ScanSpec == Init /\ [][ScanNext]_vars

\* the second QR code belongs to the second reward
AvailInit == Init /\ qrcodes["q2"].rewardId = "r2"

AvailSpec == AvailInit /\ [][AvailNext]_vars

(* --------------------------------------------------------------- claims *)

\* the non-reversed claims of a claim collection c, as <<user, QR code, index>>
NonReversedIn(c) ==
    UNION {{<<pr[1], pr[2], i>> : i \in {j \in DOMAIN c[pr] : c[pr][j].status # "reversed"}}
           : pr \in Pairs}

PointsAwardedOf(S) == SumOver(S, [id \in S |-> ClaimDoc(id).pointsAwarded])

Done(p, op) == req[p].pc = "done" /\ req[p].op = op

AvailabilityReasons ==
    {"QR code is inactive", "Associated reward not found", "Reward is inactive",
     "Reward has expired", "Reward has reached maximum claims",
     "Associated partner not found", "Partner is not eligible"}

\* C1: between requests, every reward's currentClaims equals the number of
\* non-reversed claims that reference the reward.
C1_CurrentClaimsMatchLedger ==
    AllIdle =>
      \A r \in Rewards :
        rewards[r].currentClaims =
          Cardinality({id \in NonReversedIn(claims) : ClaimDoc(id).rewardId = r})

\* C2: between requests, every QR code's successfulClaims equals the number
\* of non-reversed claims that reference the QR code.
C2_SuccessfulClaimsMatchLedger ==
    AllIdle =>
      \A q \in QRs :
        qrcodes[q].successfulClaims =
          Cardinality({id \in NonReversedIn(claims) : id[2] = q})

\* C3: between requests, every user's points equal the sum of pointsAwarded
\* over the user's non-reversed claims.
C3_PointsMatchLedger ==
    AllIdle =>
      \A u \in Users :
        users[u].points =
          PointsAwardedOf({id \in NonReversedIn(claims) : id[1] = u})

\* C4: in every state, under any interleaving of claimReward requests, each
\* (userId, qrCodeId) pair has at most one claim whose status is not reversed.
C4_AtMostOneActiveClaimPerPair ==
    \A pr \in Pairs :
      Cardinality({i \in DOMAIN claims[pr] : claims[pr][i].status # "reversed"}) <= 1

\* two requests raced for one pair: this one passed the duplicate check when
\* the pair had no claim and then lost the insert
C4_Witness ==
    \E p \in Procs :
      /\ Done(p, "claim")
      /\ req[p].resp.thrown = "E11000 duplicate key"
      /\ req[p].pre.claims[<<req[p].userId, req[p].qrId>>] = <<>>

\* C5: a reverseClaim request on a claim that is already reversed is rejected
\* with 'Claim is already reversed' and changes nothing; a reverseClaim on a
\* claim that is not reversed takes pointsAwarded off the user's points and 1
\* off the counters of the claim's QR code and reward, so two reversals in a
\* row deduct exactly once.
C5_SecondReversalChangesNothing ==
    \A p \in Procs :
      (Done(p, "reverse") /\ req[p].resp.code # 404) =>
        LET id == req[p].claimId
            pre == req[p].pre
            c == pre.claims[<<id[1], id[2]>>][id[3]]
        IN IF c.status = "reversed"
           THEN /\ req[p].resp.code = 400
                /\ req[p].resp.error = "Claim is already reversed"
                /\ Snapshot = pre
           ELSE /\ req[p].resp.code = 200
                /\ ClaimDoc(id).status = "reversed"
                /\ users[id[1]].points = pre.users[id[1]].points - c.pointsAwarded
                /\ qrcodes[id[2]].successfulClaims = pre.successfulClaims[id[2]] - 1
                /\ rewards[c.rewardId].currentClaims = pre.currentClaims[c.rewardId] - 1

C5_Witness ==
    \E p \in Procs :
      /\ Done(p, "reverse")
      /\ req[p].resp.error = "Claim is already reversed"
      /\ users[req[p].claimId[1]].points = 0

\* C6: a claimReward request that ends in an error leaves the claims, the
\* users (points, ecoLevel, claimedRewards), every successfulClaims and every
\* currentClaims as they were when the request started.
C6_ErrorLeavesStateUnchanged ==
    \A p \in Procs :
      (Done(p, "claim") /\ req[p].resp.code # 201) => Snapshot = req[p].pre

\* C7: a claimReward request that succeeds has created exactly one claim,
\* completed and with pointsAwarded equal to the reward's points, and has
\* raised the user's points by pointsAwarded and the reward's currentClaims
\* and the QR code's successfulClaims by 1 each.
C7_SuccessfulClaimEffects ==
    \A p \in Procs :
      (Done(p, "claim") /\ req[p].resp.code = 201) =>
        LET u == req[p].userId
            q == req[p].qrId
            r == qrcodes[q].rewardId
            pre == req[p].pre
        IN /\ claims = [pre.claims EXCEPT ![<<u, q>>] = Append(@,
                          [rewardId |-> r, pointsAwarded |-> rewards[r].points,
                           status |-> "completed",
                           claimedAt |-> req[p].resp.claimedAt])]
           /\ req[p].resp.pointsAwarded = rewards[r].points
           /\ \A v \in Users :
                users[v].points =
                  pre.users[v].points + (IF v = u THEN rewards[r].points ELSE 0)
           /\ \A x \in Rewards :
                rewards[x].currentClaims =
                  pre.currentClaims[x] + (IF x = r THEN 1 ELSE 0)
           /\ \A x \in QRs :
                qrcodes[x].successfulClaims =
                  pre.successfulClaims[x] + (IF x = q THEN 1 ELSE 0)

C7_Witness ==
    \E p \in Procs :
      /\ Done(p, "claim")
      /\ req[p].resp.code = 201
      /\ req[p].pre.successfulClaims[req[p].qrId] = 1

\* the requests of C8: a claimReward by a user on a QR code on which the user
\* held a non-reversed claim when the request started
HeldClaim(p) ==
    LET s == req[p].pre.claims[<<req[p].userId, req[p].qrId>>]
    IN {i \in DOMAIN s : s[i].status # "reversed"}

IsDuplicateRequest(p) ==
    /\ Done(p, "claim")
    /\ req[p].qrId \in QRs
    /\ HeldClaim(p) # {}

AlreadyClaimedResponse(p) ==
    /\ req[p].resp.code = 400
    /\ req[p].resp.error = "You have already claimed this reward"
    /\ \E i \in HeldClaim(p) :
         LET c == req[p].pre.claims[<<req[p].userId, req[p].qrId>>][i]
         IN /\ req[p].resp.claimedAt = c.claimedAt
            /\ req[p].resp.pointsAwarded = c.pointsAwarded

\* C8, as stated: a further claimReward by a user on a QR code the user holds
\* a non-reversed claim on is rejected with the 'already claimed' error that
\* carries the existing claim's claimedAt and pointsAwarded, and changes
\* nothing.
C8_DuplicateAlwaysAlreadyClaimed ==
    \A p \in Procs :
      IsDuplicateRequest(p) => (AlreadyClaimedResponse(p) /\ Snapshot = req[p].pre)

\* C8, amended: such a request is rejected with a 400 client error and changes
\* nothing; the error is the reason of the availability check when the QR
\* code, its reward or its partner fails that check, which runs first, and the
\* 'already claimed' error with the existing claim's info otherwise.
C8_DuplicateRejected ==
    \A p \in Procs :
      IsDuplicateRequest(p) =>
        /\ Snapshot = req[p].pre
        /\ req[p].resp.code = 400
        /\ \/ req[p].resp.error \in AvailabilityReasons
           \/ AlreadyClaimedResponse(p)

C8_Witness ==
    \E p \in Procs : IsDuplicateRequest(p) /\ AlreadyClaimedResponse(p)

\* C9: no user ever holds more non-reversed claims on a reward than the
\* reward's maxClaimsPerUser, and a claimReward through another QR code of a
\* reward on which the user's count had reached the cap is rejected and
\* changes nothing.
C9_PerUserCapRespected ==
    /\ \A u \in Users, r \in Rewards :
         Cardinality({id \in NonReversedIn(claims) :
                        id[1] = u /\ ClaimDoc(id).rewardId = r})
           <= rewards[r].maxClaimsPerUser
    /\ \A p \in Procs :
         (/\ Done(p, "claim")
          /\ req[p].qrId \in QRs
          /\ HeldClaim(p) = {}
          /\ LET pre == req[p].pre
                 r == qrcodes[req[p].qrId].rewardId
             IN Cardinality({id \in NonReversedIn(pre.claims) :
                    /\ id[1] = req[p].userId
                    /\ pre.claims[<<id[1], id[2]>>][id[3]].rewardId = r})
                  >= rewards[r].maxClaimsPerUser)
         => (req[p].resp.code = 400 /\ Snapshot = req[p].pre)

C9_Witness ==
    \E p \in Procs :
      /\ Done(p, "claim")
      /\ req[p].resp.error = "You have reached the maximum number of claims"
      /\ HeldClaim(p) = {}

\* what C10 calls unavailable, of the reward and the partner as stored
RewardUnavailable(r) ==
    \/ ~rewards[r].exists
    \/ ~rewards[r].isActive
    \/ (rewards[r].expiryDate # 0 /\ now > rewards[r].expiryDate)
    \/ (rewards[r].totalMaxClaims # 0
        /\ rewards[r].currentClaims >= rewards[r].totalMaxClaims)

PartnerUnavailable ==
    ~partner.exists \/ partner.verificationStatus # "verified" \/ ~partner.isActive

\* C10: when the availability check of a claimReward request reads an
\* inactive QR code, a missing, inactive, expired or maxed out reward, or a
\* missing, unverified or inactive partner, the request ends there with a 400
\* response, whichever user makes it, and creates no claim; a claim is only ever
\* created by the insert step of a request, which follows the three reads.
C10_UnavailableNeverClaimed ==
    [][\A p \in Procs :
         /\ (/\ req[p].pc = "cFind"
             /\ req'[p].pc # "cFind"
             /\ req[p].qrId \in QRs
             /\ qrcodes[req[p].qrId].exists
             /\ ~qrcodes[req[p].qrId].isActive)
            => (req'[p].pc = "done" /\ req'[p].resp.code = 400 /\ claims' = claims)
         /\ (/\ req[p].pc = "cReward"
             /\ req'[p].pc # "cReward"
             /\ RewardUnavailable(req[p].qrDoc.rewardId))
            => (req'[p].pc = "done" /\ req'[p].resp.code = 400 /\ claims' = claims)
         /\ (/\ req[p].pc = "cPartner"
             /\ req'[p].pc # "cPartner"
             /\ PartnerUnavailable)
            => (req'[p].pc = "done" /\ req'[p].resp.code = 400 /\ claims' = claims)
         /\ (claims' # claims)
            => \E x \in Procs : req[x].pc = "cInsert" /\ req'[x].pc = "cRecord"]_vars

\* a request met a maxed out reward (totalMaxClaims 1, currentClaims 1)
C10_Witness ==
    \E p \in Procs :
      /\ Done(p, "claim")
      /\ req[p].resp.error = "Reward has reached maximum claims"
      /\ req[p].pre.claims[<<req[p].userId, req[p].qrId>>] = <<>>

\* the claim a reverseClaim request names, as it was when the request started
ClaimBefore(p) ==
    req[p].pre.claims[<<req[p].claimId[1], req[p].claimId[2]>>][req[p].claimId[3]]

\* C11: a reverseClaim request on a claim that is not reversed succeeds, and
\* when it has completed the claim's status is reversed, the owning user's
\* points are max(0, points - pointsAwarded), the user's ecoLevel is the
\* level of the new points, and successfulClaims of the claim's QR code and
\* currentClaims of the claim's reward are each 1 lower than before.
C11_ReverseEffects ==
    \A p \in Procs :
      (/\ Done(p, "reverse")
       /\ req[p].resp.code # 404
       /\ ClaimBefore(p).status # "reversed") =>
        LET id == req[p].claimId
            pre == req[p].pre
            c == ClaimBefore(p)
        IN /\ req[p].resp.code = 200
           /\ ClaimDoc(id).status = "reversed"
           /\ users[id[1]].points =
                IF pre.users[id[1]].points - c.pointsAwarded > 0
                THEN pre.users[id[1]].points - c.pointsAwarded ELSE 0
           /\ users[id[1]].ecoLevel = levelFor(users[id[1]].points)
           /\ qrcodes[id[2]].successfulClaims = pre.successfulClaims[id[2]] - 1
           /\ rewards[c.rewardId].currentClaims = pre.currentClaims[c.rewardId] - 1

\* a reversal that met the floor: the user had fewer points than the claim
\* had awarded
C11_Witness ==
    \E p \in Procs :
      /\ Done(p, "reverse")
      /\ req[p].resp.code = 200
      /\ req[p].pre.users[req[p].claimId[1]].points < ClaimBefore(p).pointsAwarded
      /\ users[req[p].claimId[1]].points = 0

\* C12: in every step of every operation, each RewardClaim record stays in
\* the collection with the reward, points and time it was created with, and
\* a record whose status is reversed keeps the status reversed.
C12_ReversedIsTerminal ==
    [][\A pr \in Pairs :
         /\ Len(claims'[pr]) >= Len(claims[pr])
         /\ \A i \in DOMAIN claims[pr] :
              /\ claims'[pr][i].rewardId = claims[pr][i].rewardId
              /\ claims'[pr][i].pointsAwarded = claims[pr][i].pointsAwarded
              /\ claims'[pr][i].claimedAt = claims[pr][i].claimedAt
              /\ claims[pr][i].status = "reversed"
                   => claims'[pr][i].status = "reversed"]_vars

\* the user of a reversed claim has claimed the same QR code again and the
\* request has ended: the reversed record is still there, still reversed
C12_Witness ==
    \E p \in Procs :
      /\ Done(p, "claim")
      /\ req[p].qrId \in QRs
      /\ req[p].pre.claims[<<req[p].userId, req[p].qrId>>] # <<>>
      /\ req[p].pre.claims[<<req[p].userId, req[p].qrId>>][1].status = "reversed"
      /\ claims[<<req[p].userId, req[p].qrId>>][1].status = "reversed"
      /\ req[p].resp.thrown = "E11000 duplicate key"

NoneInFlight == \A p \in Procs : req[p].pc \in {"idle", "done"}

\* C13: whenever the requests made so far have all completed, every user's
\* stored ecoLevel is the level of the user's stored points.
C13_EcoLevelMatchesPoints ==
    NoneInFlight =>
      \A u \in AllUsers : users[u].ecoLevel = levelFor(users[u].points)

\* the only requests made so far are one claimReward per process, they ran
\* concurrently or one after the other, and all of them have succeeded
AllClaimsSucceeded ==
    /\ nreq = Cardinality(Procs)
    /\ \A p \in Procs : Done(p, "claim") /\ req[p].resp.code = 201

\* C14: when concurrent claimReward requests have all succeeded, every
\* user's points have grown from 0 by the sum of the pointsAwarded of the
\* user's requests, and successfulClaims of every QR code and currentClaims
\* of every reward have grown from 0 by the number of the requests that
\* claimed through it.
C14_NoLostUpdate ==
    AllClaimsSucceeded =>
      /\ \A u \in Users :
           users[u].points =
             SumOver({p \in Procs : req[p].userId = u},
                     [p \in Procs |-> req[p].pointsAwarded])
      /\ \A q \in QRs :
           qrcodes[q].successfulClaims =
             Cardinality({p \in Procs : req[p].qrId = q})
      /\ \A r \in Rewards :
           rewards[r].currentClaims =
             Cardinality({p \in Procs : req[p].qrDoc.rewardId = r})

\* C15: while a claimReward request, the only request running, has not
\* persisted its RewardClaim record, every user's points and claimedRewards,
\* every QR code's successfulClaims and every reward's currentClaims are what
\* they were when the request started.
C15_RecordBeforeSideEffects ==
    \A p \in Procs :
      (/\ req[p].op = "claim"
       /\ req[p].claimId = NoClaim
       /\ claims = req[p].pre.claims) =>
        /\ users = req[p].pre.users
        /\ \A q \in QRs : qrcodes[q].successfulClaims = req[p].pre.successfulClaims[q]
        /\ \A r \in Rewards : rewards[r].currentClaims = req[p].pre.currentClaims[r]

\* C16: when the insert of claimReward meets a record of the same
\* (userId, qrCodeId) pair, it creates nothing and the request ends with the
\* 400 'already claimed' error that carries the claimedAt and pointsAwarded
\* of an existing claim of the pair.
C16_DuplicateKeyIsClientError ==
    [][\A p \in Procs :
         (/\ req[p].pc = "cInsert"
          /\ req'[p].pc # "cInsert"
          /\ Len(claims[<<req[p].userId, req[p].qrId>>]) > 0) =>
           /\ claims' = claims
           /\ req'[p].pc = "done"
           /\ req'[p].resp.code = 400
           /\ req'[p].resp.error = "You have already claimed this reward"
           /\ \E i \in DOMAIN claims[<<req[p].userId, req[p].qrId>>] :
                LET c == claims[<<req[p].userId, req[p].qrId>>][i]
                IN /\ req'[p].resp.claimedAt = c.claimedAt
                   /\ req'[p].resp.pointsAwarded = c.pointsAwarded]_vars

\* a request lost the race for its pair at the insert and was answered
C16_Witness ==
    \E p \in Procs :
      /\ Done(p, "claim")
      /\ req[p].resp.thrown = "E11000 duplicate key"
      /\ req[p].resp.code = 400
      /\ Len(claims[<<req[p].userId, req[p].qrId>>]) = 1

\* the leaderboard entry of u mirrors the points of u
LeaderboardSynced(u) ==
    leaderboard[u].exists /\ leaderboard[u].totalPoints = users[u].points

\* a claimReward or reverseClaim request has completed and has changed the
\* points of u
PointsChangedByClaim(u) ==
    \E p \in Procs :
      /\ req[p].pc = "done"
      /\ req[p].op \in {"claim", "reverse"}
      /\ req[p].userId = u
      /\ users[u].points # req[p].pre.users[u].points

\* C17: whenever claimReward or reverseClaim has changed a user's points,
\* the user's leaderboard entry eventually has totalPoints equal to the
\* user's points, whether or not any further request is made.
C17_LeaderboardEventuallySynced ==
    \A u \in Users : PointsChangedByClaim(u) ~> LeaderboardSynced(u)

\* the users who have a leaderboard entry
Entries == {u \in AllUsers : leaderboard[u].exists}

\* the request of p has completed and has run updateAllRankings
RankingsDone(p) ==
    /\ req[p].pc = "done"
    /\ \/ req[p].op = "recalculate"
       \/ req[p].op = "points" /\ req[p].resp.code = 200

\* C18: when updateAllRankings has run alone on the N leaderboard entries,
\* their currentRank values are the numbers 1..N, each once, and an entry
\* with more totalPoints than another has the smaller currentRank.
C18_RanksArePermutation ==
    \A p \in Procs :
      RankingsDone(p) =>
        /\ {leaderboard[u].currentRank : u \in Entries} = 1..Cardinality(Entries)
        /\ \A a, b \in Entries :
             leaderboard[a].totalPoints > leaderboard[b].totalPoints
               => leaderboard[a].currentRank < leaderboard[b].currentRank

\* three entries were ranked, two of them with equal totalPoints
C18_Witness ==
    \E p \in Procs :
      /\ RankingsDone(p)
      /\ Cardinality(Entries) = 3
      /\ \E a, b \in Entries :
           a # b /\ leaderboard[a].totalPoints = leaderboard[b].totalPoints
      /\ \E a, b \in Entries :
           leaderboard[a].totalPoints > leaderboard[b].totalPoints

\* C19: when updateAllRankings has run alone, every entry's previousRank is
\* the currentRank the entry had before the call (null for an entry the
\* request itself created) and its rankMovement is 'new' when that rank was
\* null, 'up' when the new currentRank is smaller than it, 'down' when it is
\* larger and 'none' when it is equal.
C19_PreviousRankAndMovement ==
    \A p \in Procs :
      RankingsDone(p) =>
        \A u \in Entries :
          LET prior == req[p].pre.leaderboard[u].currentRank
              e == leaderboard[u]
          IN /\ e.previousRank = prior
             /\ prior = 0 => e.rankMovement = "new"
             /\ (prior # 0 /\ e.currentRank < prior) => e.rankMovement = "up"
             /\ (prior # 0 /\ e.currentRank > prior) => e.rankMovement = "down"
             /\ (prior # 0 /\ e.currentRank = prior) => e.rankMovement = "none"

\* one call moved an entry up, another down, and left or created a third
C19_Witness ==
    \E p \in Procs :
      /\ RankingsDone(p)
      /\ \E a, b, c \in Entries :
           /\ leaderboard[a].rankMovement = "up"
           /\ leaderboard[b].rankMovement = "down"
           /\ leaderboard[c].rankMovement \in {"none", "new"}

\* the checks of C20 in their fixed order, on the stored QR code q, its
\* reward and the partner: whether each fails, and its reason
FailingChecks(q) ==
    LET qr == qrcodes[q]
        reward == rewards[qr.rewardId]
    IN << ~qr.isActive,
          ~reward.exists,
          ~reward.isActive,
          reward.expiryDate # 0 /\ now > reward.expiryDate,
          reward.totalMaxClaims # 0 /\ reward.currentClaims >= reward.totalMaxClaims,
          ~partner.exists,
          ~(partner.verificationStatus = "verified" /\ partner.isActive) >>

CheckReasons ==
    << "QR code is inactive", "Associated reward not found", "Reward is inactive",
       "Reward has expired", "Reward has reached maximum claims",
       "Associated partner not found", "Partner is not eligible" >>

\* what C20 says isValidForScanning returns
FirstFailure(q) ==
    LET failing == {i \in DOMAIN CheckReasons : FailingChecks(q)[i]}
    IN IF failing = {}
       THEN [valid |-> TRUE, reason |-> "QR code is valid"]
       ELSE [valid |-> FALSE,
             reason |-> CheckReasons[CHOOSE i \in failing : \A j \in failing : i <= j]]

\* C20: for every combination of the seven conditions, isValidForScanning
\* returns valid=false with the reason of the first check that fails in the
\* order QR code inactive, reward not found, reward inactive, reward expired,
\* reward maxed out, partner not found, partner not eligible, and valid=true
\* with 'QR code is valid' exactly when none fails; claimReward, which calls
\* it first, gets that result.
C20_FirstFailingCheckWins ==
    /\ \A q \in QRs :
         isValidForScanning(qrcodes[q], rewards[qrcodes[q].rewardId], partner)
           = FirstFailure(q)
    /\ \A p \in Procs :
         (/\ req[p].op = "claim"
          /\ req[p].qrId \in QRs
          /\ \/ req[p].pc = "cDupCheck"
             \/ req[p].pc = "done" /\ ~req[p].validationResult.valid) =>
           req[p].validationResult = FirstFailure(req[p].qrId)

\* the reward is inactive, expired and maxed out and the partner is missing:
\* the request was answered with the first of these
C20_Witness ==
    \E p \in Procs :
      /\ Done(p, "claim")
      /\ req[p].qrId \in QRs
      /\ req[p].validationResult = [valid |-> FALSE, reason |-> "Reward is inactive"]
      /\ \A i \in 3..6 : FailingChecks(req[p].qrId)[i]

\* the level C21 gives for points
LevelTable(points) ==
    IF points >= 1000 THEN "leader"
    ELSE IF points \in 500..999 THEN "expert"
    ELSE IF points \in 250..499 THEN "advanced"
    ELSE IF points \in 100..249 THEN "intermediate"
    ELSE "beginner"

LevelOrder(level) ==
    IF level = "beginner" THEN 1
    ELSE IF level = "intermediate" THEN 2
    ELSE IF level = "advanced" THEN 3
    ELSE IF level = "expert" THEN 4
    ELSE 5

\* the request of p has applied updateEcoLevel and saved the user
LevelUpdated(p) ==
    /\ req[p].op = "points"
    /\ req[p].pc \in {"uSync", "rankFind", "rankWrite", "done"}
    /\ req[p].userId \in AllUsers
    /\ req[p].pointsAwarded # 0

\* C21: after updateEcoLevel has been applied and saved, the stored ecoLevel
\* is the level of the table for the stored points, whatever level was
\* stored before; the level never falls when the points rise nor rises when
\* they fall; and a level that was right for the points before stays as it
\* was when the new points are in the same range.
C21_LevelIsFunctionOfPoints ==
    /\ \A p \in Procs :
         LevelUpdated(p) =>
           LET u == req[p].userId
               before == req[p].pre.users[u]
           IN /\ users[u].ecoLevel = LevelTable(users[u].points)
              /\ req[p].userDoc.ecoLevel = LevelTable(users[u].points)
              /\ (before.ecoLevel = LevelTable(before.points)
                  /\ users[u].points >= before.points)
                 => LevelOrder(users[u].ecoLevel) >= LevelOrder(before.ecoLevel)
              /\ (before.ecoLevel = LevelTable(before.points)
                  /\ users[u].points <= before.points)
                 => LevelOrder(users[u].ecoLevel) <= LevelOrder(before.ecoLevel)
              /\ (before.ecoLevel = LevelTable(before.points)
                  /\ LevelTable(users[u].points) = LevelTable(before.points))
                 => users[u].ecoLevel = before.ecoLevel
    /\ \A a \in LevelPoints, b \in LevelPoints :
         a <= b => LevelOrder(levelFor(a)) <= LevelOrder(levelFor(b))

\* the example of C21: 90 points and beginner became 105 and intermediate
C21_Witness ==
    \E p \in Procs :
      /\ LevelUpdated(p)
      /\ req[p].pc = "done"
      /\ req[p].pre.users["u1"].points = 90
      /\ req[p].pre.users["u1"].ecoLevel = "beginner"
      /\ users["u1"].points = 105
      /\ users["u1"].ecoLevel = "intermediate"

\* the request of p is an activity request that saved the user
ActivitySaved(p) ==
    /\ req[p].op \in {"activity", "ascan"}
    /\ req[p].pc \in {"aSync", "rankFind", "rankWrite", "done"}
    /\ req[p].resp.code \notin {400, 404}

\* C22: when syncUserPoints or updateAllRankings fails in scanQRCode of the
\* activity controller or in createActivity, the points and the ecoLevel
\* saved for the user are kept and the request still completes with its
\* success response.
C22_LeaderboardFailureIsSwallowed ==
    \A p \in Procs :
      (ActivitySaved(p) /\ req[p].lbError) =>
        LET u == req[p].userId IN
        /\ req[p].pc = "done"
        /\ req[p].resp.code = 201
        /\ req[p].resp.error = ""
        /\ users[u].points = req[p].pre.users[u].points + req[p].pointsAwarded
        /\ users[u].ecoLevel = levelFor(users[u].points)
        /\ req[p].resp.totalPoints = users[u].points
        /\ req[p].resp.ecoLevel = users[u].ecoLevel

\* a scan whose syncUserPoints failed answered 201 and kept the points,
\* which the leaderboard does not show
C22_Witness ==
    \E p \in Procs :
      /\ req[p].op = "ascan"
      /\ req[p].pc = "done"
      /\ req[p].lbError
      /\ req[p].resp.code = 201
      /\ users[req[p].userId].points > req[p].pre.users[req[p].userId].points
      /\ ~leaderboard[req[p].userId].exists

\* C23: a successful claimReward appends exactly one entry, with the
\* rewardId, qrCodeId, pointsAwarded and claimedAt of the claim, to the
\* claimedRewards of the claiming user and leaves every other user's
\* entries as they were; reverseClaim leaves all entries as they were.
C23_ClaimedRewardsAppendOnly ==
    \A p \in Procs :
      /\ (Done(p, "claim") /\ req[p].resp.code = 201) =>
           LET u == req[p].userId
               q == req[p].qrId
               c == claims[<<u, q>>][Len(claims[<<u, q>>])]
           IN /\ users[u].claimedRewards =
                   Append(req[p].pre.users[u].claimedRewards,
                          [rewardId |-> c.rewardId, qrCodeId |-> q,
                           pointsAwarded |-> c.pointsAwarded,
                           claimedAt |-> c.claimedAt])
              /\ \A v \in AllUsers \ {u} :
                   users[v].claimedRewards = req[p].pre.users[v].claimedRewards
      /\ (req[p].op = "reverse" /\ req[p].pc # "idle") =>
           \A v \in AllUsers :
             users[v].claimedRewards = req[p].pre.users[v].claimedRewards

\* a claim was reversed and its entry is still in claimedRewards
C23_Witness ==
    \E p \in Procs :
      /\ Done(p, "reverse")
      /\ req[p].resp.code = 200
      /\ req[p].userId \in Users
      /\ Len(users[req[p].userId].claimedRewards) = 1
      /\ users[req[p].userId].claimedRewards[1].qrCodeId = req[p].qrId
      /\ users[req[p].userId].points = 0

\* C24: the points of every user are never negative, after any sequence of
\* claimReward, reverseClaim, createActivity and updateUserPoints requests.
C24_PointsNeverNegative ==
    \A u \in AllUsers : users[u].points >= 0

\* reverseClaim requests p and o are on the same claim and both passed the
\* check of its status
BothReversing(p, o) ==
    /\ p # o
    /\ req[p].op = "reverse" /\ req[o].op = "reverse"
    /\ req[p].claimId = req[o].claimId
    /\ req[p].pc \notin {"idle", "rFind"} /\ req[o].pc \notin {"idle", "rFind"}
    /\ req[p].resp.code \notin {400, 404} /\ req[o].resp.code \notin {400, 404}

\* C25: two overlapping reverseClaim requests on the same completed claim
\* reduce the user's points at most once and decrement successfulClaims
\* and currentClaims at most once.
C25_OverlappingReversalsActOnce ==
    \A p \in Procs, o \in Procs :
      BothReversing(p, o) =>
        LET u == req[p].userId
            q == req[p].qrId
            r == req[p].qrDoc.rewardId
            pre == req[p].pre
        IN /\ users[u].points >= Max(0, pre.users[u].points - req[p].pointsAwarded)
           /\ qrcodes[q].successfulClaims >= pre.successfulClaims[q] - 1
           /\ rewards[r].currentClaims >= pre.currentClaims[r] - 1

\* C26: the non-reversed claims on a reward never number more than its
\* totalMaxClaims, also when claims of different users overlap while one
\* claim remains.
C26_TotalCapRespected ==
    \A r \in Rewards :
      rewards[r].totalMaxClaims # 0 =>
        Cardinality({id \in NonReversedIn(claims) : ClaimDoc(id).rewardId = r})
          <= rewards[r].totalMaxClaims

\* C27: the non-reversed claims of one user on a reward never number more
\* than its maxClaimsPerUser, also when claims of that user on different QR
\* codes of the reward overlap.
C27_PerUserCapRespectedWhenOverlapping ==
    \A u \in Users, r \in Rewards :
      Cardinality({id \in NonReversedIn(claims) :
                     id[1] = u /\ ClaimDoc(id).rewardId = r})
        <= rewards[r].maxClaimsPerUser

\* the most a user can be credited on account of reward r
RewardCap(r) == rewards[r].points * rewards[r].maxClaimsPerUser

\* C28: over any sequence of scans (of either controller) and claims, a
\* scan does not by itself add to the points of the user, and the points a
\* user is credited on account of a reward are at most the points of the
\* reward times its maxClaimsPerUser; where only scans and claims credit
\* points, the points of a user are then at most the sum of these caps.
C28_ScansCreditNothing ==
    /\ \A p \in Procs :
         (req[p].op \in {"ascan", "qscan"} /\ req[p].pc # "idle") =>
           users[req[p].userId].points = req[p].pre.users[req[p].userId].points
    /\ \A u \in Users :
         users[u].points <= SumOver(Rewards, [r \in Rewards |-> RewardCap(r)])

\* C29: successfulClaims of every QR code and currentClaims of every reward
\* are never negative, under any interleaving of claimReward and
\* reverseClaim requests.
C29_CountersNeverNegative ==
    /\ \A q \in QRs : qrcodes[q].successfulClaims >= 0
    /\ \A r \in Rewards : rewards[r].currentClaims >= 0

\* no call of updateAllRankings is in flight
NoRankingsInFlight ==
    \A p \in Procs : req[p].pc \notin {"rankFind", "rankWrite"}

\* C30: whenever no updateAllRankings is in flight, the non-null
\* currentRank values of the leaderboard entries are pairwise distinct,
\* for any interleaving of overlapping syncUserPoints and updateAllRankings
\* calls.
C30_RanksDistinctWhenQuiet ==
    NoRankingsInFlight =>
      \A u \in Entries, v \in Entries :
        (u # v /\ leaderboard[u].currentRank # 0 /\ leaderboard[v].currentRank # 0)
          => leaderboard[u].currentRank # leaderboard[v].currentRank

====
